---- MODULE Spec2Model ----
(***************************************************************************)
(* Model of the terrain height tile loader (TerrainHeightLoader) with its  *)
(* UsageTracker, HeightLoaderTile and RequestQueue.                        *)
(*                                                                         *)
(* Execution model: JavaScript, one thread.  getOrLoadTile, update, use    *)
(* and release run to completion.  A launched load() is suspended at       *)
(* `await fetch`; when the network answers, the rest of load() runs        *)
(* (LoadResponse, or LoadReject when an awaited promise rejects) and, if   *)
(* load()'s promise is fulfilled, the .then callback of processQueue runs  *)
(* as the next microtask (ThenCallback) before any other task gets         *)
(* control.  A rejected load() has no handler: nothing more runs for it.   *)
(***************************************************************************)
EXTENDS Integers, Sequences, FiniteSets, TLC

\* ---- bounds of the model ----
\* x ranges over 0..MaxX, owners over 1..NumOwners, and consumers make at most
\* MaxOps acquisitions (getOrLoadTile and tracker.use calls) in a behaviour.
MaxX == 2
MaxOps == 3
NumOwners == 2

\* ---- program constants ----
maxConcurrentRequests == 2
downscaleTimesArg == 1
HttpOk == 200

Xs == 0..MaxX
Ys == {0}
Zooms == {0}
Owners == 1..NumOwners
\* response.status values the network may answer: 200 and one that is not 200.
Statuses == {HttpOk, 404}

VARIABLES
    tiles,            \* TerrainHeightLoader.tiles: key -> HeightLoaderTile
    heap,             \* live Request objects: identity -> [x, y, zoom, waitingList]
    queue,            \* RequestQueue.queue (sequence of Request identities)
    queueInProgress,  \* RequestQueue.queueInProgress
    activeRequests,   \* TerrainHeightLoader.activeRequests
    loads,            \* promise of each launched load(): identity of its Request -> [promise, status]
    pending,          \* promises returned by getOrLoadTile that are not resolved
    opCount,          \* number of getOrLoadTile, use and detached release calls made so far
    launched,         \* network GETs issued by the last step, in order: <<Request, x, y, zoom>>
    resumed,          \* promises resolved by the last step: [promise, owner, tile]
    evicted,          \* keys whose tile was delete()d by the last step
    raised,           \* a .then callback has thrown (TypeError on a null tile)
    orphaned,         \* keys whose tile lost its last owner by release(), no use() since
    reacquired,       \* <<key, owner>>: the owner obtained the tile while registered on it
    gaveUp,           \* <<key, owner>>: the owner released while its request for key was unfinished
    imageData,        \* decodeBitmap: the pixels read from the canvas, <<r, g, b>> each
    data              \* decodeBitmap: the Float32Array it fills, << >> before the loop

vars == <<tiles, heap, queue, queueInProgress, activeRequests, loads,
          pending, opCount, launched, resumed, evicted, raised, orphaned,
          reacquired, gaveUp, imageData, data>>

\* The variables of the loader proper.
loaderVars == <<tiles, heap, queue, queueInProgress, activeRequests, loads,
                pending, opCount, launched, resumed, evicted, raised, orphaned,
                reacquired, gaveUp>>

\* ---- helpers ----
Range(s) == {s[i] : i \in 1..Len(s)}

Min(S) == CHOOSE m \in S : \A n \in S : m <= n

\* ---- UsageTracker ----
\* Faulty variant of use: a second use() of the same owner takes it out again.
use_Toggle(users, id) == IF id \in users THEN users \ {id} ELSE users \cup {id}

use(users, id) == users \cup {id}

\* Faulty variant of release: the owner stays registered.
release_Keep(users, id) == users

release(users, id) == users \ {id}

\* Faulty variant of isUsed: >= for >.
isUsed_OffByOne(users) == Cardinality(users) >= 0

isUsed(users) == Cardinality(users) > 0

\* ---- HeightLoaderTile ----
\* A tile object: identity, tracker.users, keys of the levels map.
NewTile(id) == [id |-> id, users |-> {}, levels |-> {}]

\* The null returned by getTile.
NullTile == [id |-> 0, users |-> {}, levels |-> {}]

setLevel(tile, levelId) == [tile EXCEPT !.levels = @ \cup {levelId}]

\* ---- TerrainHeightLoader lookups ----
getTileKey(x, y, zoom) == <<x, y, zoom>>

\* Faulty variant of getTile: the key is built from other components.
getTile_WrongKey(t, x, y, zoom) ==
    LET key == getTileKey(y, x, zoom + 1)
    IN  IF key \in DOMAIN t THEN t[key] ELSE NullTile

getTile(t, x, y, zoom) ==
    LET key == getTileKey(x, y, zoom)
    IN  IF key \in DOMAIN t THEN t[key] ELSE NullTile

\* Map.set on a function.
MapSet(t, key, val) == [k \in DOMAIN t \cup {key} |-> IF k = key THEN val ELSE t[k]]

MapDelete(t, keys) == [k \in DOMAIN t \ keys |-> t[k]]

\* Identity of an object allocated by `new`/a literal: one no live object has.
FreshId(used) == Min({i \in 1..(Cardinality(used) + 1) : i \notin used})

\* addTile: tiles.set(key, new HeightLoaderTile()).
addTile(t, x, y, zoom) ==
    MapSet(t, getTileKey(x, y, zoom), NewTile(FreshId({t[k].id : k \in DOMAIN t})))

\* addBitmap: creates the tile if absent (addTile), then setLevel.
addBitmap(t, x, y, zoom, level) ==
    LET t1 == IF getTile(t, x, y, zoom).id = 0 THEN addTile(t, x, y, zoom) ELSE t
        key == getTileKey(x, y, zoom)
    IN  MapSet(t1, key, setLevel(t1[key], level))

\* Faulty variant of the downscale loop: divides by 2 ** (i + 1).
RECURSIVE downscaleLoop_Shifted(_, _, _, _, _, _)
downscaleLoop_Shifted(t, x, y, zoom, i, downscaleTimes) ==
    IF i < downscaleTimes
    THEN downscaleLoop_Shifted(addBitmap(t, x \div (2 ^ (i + 1)), y \div (2 ^ (i + 1)), zoom, i + 1),
                               x, y, zoom, i + 1, downscaleTimes)
    ELSE t

\* The downscale loop of load(): for (i = 0; i < downscaleTimes; i++).
RECURSIVE downscaleLoop(_, _, _, _, _, _)
downscaleLoop(t, x, y, zoom, i, downscaleTimes) ==
    IF i < downscaleTimes
    THEN downscaleLoop(addBitmap(t, x \div (2 ^ i), y \div (2 ^ i), zoom, i + 1),
                       x, y, zoom, i + 1, downscaleTimes)
    ELSE t

\* The part of load() after a 200 response: level 0, then the downscaled levels.
loadStore(t, x, y, zoom, downscaleTimes) ==
    downscaleLoop(addBitmap(t, x, y, zoom, 0), x, y, zoom, 0, downscaleTimes)

\* removeUnusedTiles: deletes every entry whose tracker is not used.
UnusedKeys(t) == {k \in DOMAIN t : ~isUsed(t[k].users)}

\* Faulty variant of removeUnusedTiles: the isUsed test is missing.
removeUnusedTiles_All(t) == MapDelete(t, DOMAIN t)

removeUnusedTiles(t) == MapDelete(t, UnusedKeys(t))

\* ---- RequestQueue ----
Matches(h, r, x, y, zoom) == h[r].x = x /\ h[r].y = y /\ h[r].zoom = zoom

\* Array.prototype.find: the first matching element, 0 for undefined.
ArrayFind(h, s, x, y, zoom) ==
    LET idx == {i \in 1..Len(s) : Matches(h, s[i], x, y, zoom)}
    IN  IF idx = {} THEN 0 ELSE s[Min(idx)]

\* Faulty variant of find: scans the waiting queue only.
find_QueueOnly(h, q, qip, x, y, zoom) == ArrayFind(h, q, x, y, zoom)

find(h, q, qip, x, y, zoom) ==
    LET queueResult == ArrayFind(h, q, x, y, zoom)
    IN  IF queueResult # 0 THEN queueResult ELSE ArrayFind(h, qip, x, y, zoom)

\* Faulty variant of add: unshift() for push().
QueueAdd_Unshift(q, request) == <<request>> \o q

\* add: queue.push(request).
QueueAdd(q, request) == Append(q, request)

\* Faulty variant of get: pop() for shift().
QueueGet_Pop(q, qip) ==
    [request |-> q[Len(q)], queue |-> SubSeq(q, 1, Len(q) - 1), qip |-> Append(qip, q[Len(q)])]

\* get: queue.shift(), then queueInProgress.push(request).  Called with a
\* non-empty queue only (processQueue tests size > 0 first).
QueueGet(q, qip) ==
    [request |-> Head(q), queue |-> Tail(q), qip |-> Append(qip, Head(q))]

\* size: queue.length.
QueueSize(q) == Len(q)

\* Faulty variant of remove: the splice is missing.
QueueRemove_Noop(qip, r) == qip

\* remove: indexOf + splice.
QueueRemove(qip, r) ==
    LET idx == {i \in 1..Len(qip) : qip[i] = r}
    IN  IF idx = {} THEN qip
        ELSE LET index == Min(idx)
             IN  SubSeq(qip, 1, index - 1) \o SubSeq(qip, index + 1, Len(qip))

\* ---- processQueue: the admission loop ----
\* Faulty variant of the while condition: <= for <.
AdmitGuard_OffByOne(q, act) == QueueSize(q) > 0 /\ Cardinality(act) <= maxConcurrentRequests

\* The while condition.
AdmitGuard(q, act) == QueueSize(q) > 0 /\ Cardinality(act) < maxConcurrentRequests

\* Faulty variant of processQueue: if for while, one admission per call.
processQueue_Once(st) ==
    IF AdmitGuard(st.queue, st.active)
    THEN LET got == QueueGet(st.queue, st.qip)
         IN  [queue    |-> got.queue,
              qip      |-> got.qip,
              active   |-> st.active \cup {got.request},
              launched |-> Append(st.launched, got.request)]
    ELSE st

RECURSIVE processQueue(_)
processQueue(st) ==
    IF AdmitGuard(st.queue, st.active)
    THEN LET got == QueueGet(st.queue, st.qip)
             task == got.request
         IN  processQueue([queue    |-> got.queue,
                           qip      |-> got.qip,
                           active   |-> st.active \cup {task},
                           launched |-> Append(st.launched, task)])
    ELSE st

\* ---- microtask checkpoint ----
\* A fulfilled load() whose .then callback has not run yet.
ThenJobs == {r \in DOMAIN loads : loads[r].promise = "fulfilled"}

Quiescent == ThenJobs = {}

\* The loader after construction.
InitLoader ==
    /\ tiles = << >>
    /\ heap = << >>
    /\ queue = << >>
    /\ queueInProgress = << >>
    /\ activeRequests = {}
    /\ loads = << >>
    /\ pending = {}
    /\ opCount = 0
    /\ launched = << >>
    /\ resumed = {}
    /\ evicted = {}
    /\ raised = FALSE
    /\ orphaned = {}
    /\ reacquired = {}
    /\ gaveUp = {}

Init ==
    /\ InitLoader
    /\ imageData = << >>
    /\ data = << >>

\* Mark of a step that resolves no promise, deletes no tile and throws nothing.
NoOutput == launched' = << >> /\ resumed' = {} /\ evicted' = {}

\* The acquisitions on record for tiles that are in the cache before the step.
Cached(pairs) == {p \in pairs : p[1] \in DOMAIN tiles}

\* The record after owner obtains the tile at key once more.
Reacquire(key, owner) ==
    IF key \in DOMAIN tiles /\ owner \in tiles[key].users
    THEN Cached(reacquired) \cup {<<key, owner>>}
    ELSE Cached(reacquired)

\* ---- the consumers ----
\* The loader only compares coordinates and owners for equality, so behaviours
\* that differ by a renaming of x values or of owners are the same behaviour.
\* One representative of each is kept: the n-th acquisition names an x among
\* the first n values and an owner among the first n owners.
FirstUseOrder(x, owner) == x <= opCount /\ owner <= opCount + 1

\* ---- getOrLoadTile(x, y, zoom, owner) ----
\* The waitingListItem closure: what its resolve() needs.
WaitingListItem(x, y, zoom, owner, promise) ==
    [x |-> x, y |-> y, zoom |-> zoom, owner |-> owner, promise |-> promise]

\* Faulty variant of the cache hit: the owner is not registered.
GetOrLoadTileHit_NoUse(x, y, zoom, owner) ==
    LET tile == getTile(tiles, x, y, zoom)
        promise == FreshId(pending)
    IN  /\ tile.id # 0
        /\ resumed' = {[promise |-> promise, owner |-> owner, tile |-> tile.id]}
        /\ UNCHANGED <<tiles, orphaned, heap, queue, pending>>

\* Cache hit: tracker.use(owner), Promise.resolve(tile).
GetOrLoadTileHit(x, y, zoom, owner) ==
    LET tile == getTile(tiles, x, y, zoom)
        key == getTileKey(x, y, zoom)
        promise == FreshId(pending)
    IN  /\ tile.id # 0
        /\ tiles' = MapSet(tiles, key, [tile EXCEPT !.users = use(@, owner)])
        /\ resumed' = {[promise |-> promise, owner |-> owner, tile |-> tile.id]}
        /\ orphaned' = orphaned \ {key}
        /\ UNCHANGED <<heap, queue, pending>>

\* Cache miss: join the Request found by queue.find, or queue.add a new one.
GetOrLoadTileMiss(x, y, zoom, owner) ==
    LET tile == getTile(tiles, x, y, zoom)
        promise == FreshId(pending)
        request == find(heap, queue, queueInProgress, x, y, zoom)
        id == FreshId(DOMAIN heap)
        waitingListItem == WaitingListItem(x, y, zoom, owner, promise)
        newRequest == [x |-> x, y |-> y, zoom |-> zoom, waitingList |-> <<waitingListItem>>]
    IN  /\ tile.id = 0
        /\ pending' = pending \cup {promise}
        /\ IF request # 0
           THEN /\ heap' = [heap EXCEPT ![request].waitingList = Append(@, waitingListItem)]
                /\ UNCHANGED queue
           ELSE /\ heap' = MapSet(heap, id, newRequest)
                /\ queue' = QueueAdd(queue, id)
        /\ resumed' = {}
        /\ UNCHANGED <<tiles, orphaned>>

GetOrLoadTile(x, y, zoom, owner) ==
    /\ Quiescent
    /\ opCount < MaxOps
    /\ FirstUseOrder(x, owner)
    /\ opCount' = opCount + 1
    /\ \/ GetOrLoadTileHit(x, y, zoom, owner)
       \/ GetOrLoadTileMiss(x, y, zoom, owner)
    /\ launched' = << >>
    /\ evicted' = {}
    /\ reacquired' = Reacquire(getTileKey(x, y, zoom), owner)
    /\ gaveUp' = gaveUp \ {<<getTileKey(x, y, zoom), owner>>}
    /\ UNCHANGED <<queueInProgress, activeRequests, loads, raised, imageData, data>>

\* ---- update(): removeUnusedTiles(), then processQueue() ----
FetchEntry(h, r) == <<r, h[r].x, h[r].y, h[r].zoom>>

Update ==
    LET pq == processQueue([queue |-> queue, qip |-> queueInProgress,
                            active |-> activeRequests, launched |-> << >>])
        started == Range(pq.launched)
    IN  /\ Quiescent
        /\ tiles' = removeUnusedTiles(tiles)
        /\ evicted' = DOMAIN tiles \ DOMAIN tiles'
        /\ orphaned' = orphaned \cap DOMAIN tiles'
        /\ queue' = pq.queue
        /\ queueInProgress' = pq.qip
        /\ activeRequests' = pq.active
        /\ loads' = [r \in DOMAIN loads \cup started |->
                        IF r \in started THEN [promise |-> "pending", status |-> 0]
                        ELSE loads[r]]
        /\ launched' = [i \in 1..Len(pq.launched) |-> FetchEntry(heap, pq.launched[i])]
        /\ resumed' = {}
        /\ reacquired' = Cached(reacquired)
        /\ gaveUp' = {p \in gaveUp : p[1] \notin evicted'}
        /\ UNCHANGED <<heap, pending, opCount, raised, imageData, data>>

\* ---- load(): the network answers and the rest of load() runs ----
\* fetch() rejects (network error) or blob()/createImageBitmap() rejects:
\* load()'s promise is rejected before anything is stored.
LoadReject(r) ==
    /\ Quiescent
    /\ r \in DOMAIN loads
    /\ loads[r].promise = "pending"
    /\ loads' = [loads EXCEPT ![r] = [promise |-> "rejected", status |-> 0]]
    /\ NoOutput
    /\ reacquired' = Cached(reacquired)
    /\ UNCHANGED <<tiles, heap, queue, queueInProgress, activeRequests,
                   pending, opCount, raised, orphaned, gaveUp, imageData, data>>

\* fetch() resolves with a response of the given status.
LoadResponse(r, status) ==
    LET stored == IF status # HttpOk
                  THEN tiles
                  ELSE loadStore(tiles, heap[r].x, heap[r].y, heap[r].zoom, downscaleTimesArg)
    IN  /\ Quiescent
        /\ r \in DOMAIN loads
        /\ loads[r].promise = "pending"
        /\ tiles' = stored
        /\ loads' = [loads EXCEPT ![r] = [promise |-> "fulfilled", status |-> status]]
        /\ NoOutput
        /\ reacquired' = Cached(reacquired)
        /\ UNCHANGED <<heap, queue, queueInProgress, activeRequests,
                       pending, opCount, raised, orphaned, gaveUp, imageData, data>>

\* ---- the .then callback of processQueue ----
\* for (const waitingListItem of task.waitingList) waitingListItem.resolve();
\* resolve() reads tile.tracker of getTile(x, y, zoom): a null tile throws and
\* ends the loop.
\* Faulty variant of resolve(): the owner is not registered.
resolveItem_NoUse(st, item, tile) ==
    [tiles   |-> st.tiles,
     resumed |-> st.resumed \cup {[promise |-> item.promise, owner |-> item.owner,
                                   tile |-> tile.id]},
     raised  |-> FALSE]

\* waitingListItem.resolve() on a tile that is there:
\* tile.tracker.use(owner); resolve(tile).
resolveItem(st, item, tile) ==
    [tiles   |-> MapSet(st.tiles, getTileKey(item.x, item.y, item.zoom),
                        [tile EXCEPT !.users = use(@, item.owner)]),
     resumed |-> st.resumed \cup {[promise |-> item.promise, owner |-> item.owner,
                                   tile |-> tile.id]},
     raised  |-> FALSE]

\* Faulty variant of the loop over the waitingList: only the first
\* continuation is invoked.
resolveAll_FirstOnly(st, waitingList, i) ==
    IF i > Len(waitingList) THEN st
    ELSE LET item == waitingList[i]
             tile == getTile(st.tiles, item.x, item.y, item.zoom)
         IN  IF tile.id = 0
             THEN [st EXCEPT !.raised = TRUE]
             ELSE resolveItem(st, item, tile)

RECURSIVE resolveAll(_, _, _)
resolveAll(st, waitingList, i) ==
    IF i > Len(waitingList) THEN st
    ELSE LET item == waitingList[i]
             tile == getTile(st.tiles, item.x, item.y, item.zoom)
         IN  IF tile.id = 0
             THEN [st EXCEPT !.raised = TRUE]
             ELSE resolveAll(resolveItem(st, item, tile), waitingList, i + 1)

ThenCallback(r) ==
    LET st == resolveAll([tiles |-> tiles, resumed |-> {}, raised |-> FALSE],
                         heap[r].waitingList, 1)
    IN  /\ r \in ThenJobs
        /\ activeRequests' = activeRequests \ {r}
        /\ queueInProgress' = QueueRemove(queueInProgress, r)
        /\ tiles' = st.tiles
        /\ resumed' = st.resumed
        /\ raised' = (raised \/ st.raised)
        /\ pending' = pending \ {e.promise : e \in st.resumed}
        /\ loads' = MapDelete(loads, {r})
        /\ heap' = MapDelete(heap, {r})
        /\ orphaned' = orphaned \ {k \in DOMAIN tiles' : tiles'[k].users # getTile(tiles, k[1], k[2], k[3]).users}
        /\ launched' = << >>
        /\ evicted' = {}
        /\ reacquired' = Cached(reacquired) \cup
               {<<getTileKey(heap[r].x, heap[r].y, heap[r].zoom), e.owner>> :
                    e \in {d \in st.resumed :
                              \/ d.owner \in getTile(tiles, heap[r].x, heap[r].y, heap[r].zoom).users
                              \/ \E c \in st.resumed : c.owner = d.owner /\ c.promise # d.promise}}
        /\ UNCHANGED <<queue, opCount, gaveUp, imageData, data>>

\* ---- tile.tracker.use(owner) / tile.tracker.release(owner) by a consumer ----
Use(key, owner) ==
    /\ Quiescent
    /\ key \in DOMAIN tiles
    /\ opCount < MaxOps
    /\ FirstUseOrder(key[1], owner)
    /\ opCount' = opCount + 1
    /\ tiles' = [tiles EXCEPT ![key].users = use(@, owner)]
    /\ orphaned' = orphaned \ {key}
    /\ NoOutput
    /\ reacquired' = Reacquire(key, owner)
    /\ gaveUp' = gaveUp \ {<<key, owner>>}
    /\ UNCHANGED <<heap, queue, queueInProgress, activeRequests, loads,
                   pending, raised, imageData, data>>

Release(key, owner) ==
    /\ Quiescent
    /\ key \in DOMAIN tiles
    /\ tiles' = [tiles EXCEPT ![key].users = release(@, owner)]
    /\ orphaned' = IF tiles[key].users # {} /\ tiles'[key].users = {}
                   THEN orphaned \cup {key} ELSE orphaned
    /\ NoOutput
    /\ reacquired' = Cached(reacquired)
    /\ gaveUp' = gaveUp \ {<<key, owner>>}
    /\ UNCHANGED <<heap, queue, queueInProgress, activeRequests, loads,
                   pending, opCount, raised, imageData, data>>

\* The owners of the continuations waiting on the Requests for key.
WaitingOwners(key) ==
    UNION {{item.owner : item \in Range(heap[r].waitingList)} :
              r \in {q \in DOMAIN heap : getTileKey(heap[q].x, heap[q].y, heap[q].zoom) = key}}

\* tile.tracker.release(owner) by a consumer whose request for key is
\* unfinished: the Tile it acts on is not the one the load will store (none
\* is cached at key), and nothing of the loader is reached.
ReleaseDetached(key, owner) ==
    /\ Quiescent
    /\ key \notin DOMAIN tiles
    /\ owner \in WaitingOwners(key)
    /\ <<key, owner>> \notin gaveUp
    /\ opCount < MaxOps
    /\ opCount' = opCount + 1
    /\ gaveUp' = gaveUp \cup {<<key, owner>>}
    /\ NoOutput
    /\ reacquired' = Cached(reacquired)
    /\ UNCHANGED <<tiles, heap, queue, queueInProgress, activeRequests, loads,
                   pending, raised, orphaned, imageData, data>>

Keys == {getTileKey(x, y, zoom) : x \in Xs, y \in Ys, zoom \in Zooms}

RequestIds == 1..MaxOps

Next ==
    \/ \E x \in Xs, y \in Ys, zoom \in Zooms, owner \in Owners : GetOrLoadTile(x, y, zoom, owner)
    \/ Update
    \/ \E r \in RequestIds : LoadReject(r)
    \/ \E r \in RequestIds, status \in Statuses : LoadResponse(r, status)
    \/ \E r \in RequestIds : ThenCallback(r)
    \/ \E key \in Keys, owner \in Owners : Use(key, owner)
    \/ \E key \in Keys, owner \in Owners : Release(key, owner)
    \/ \E key \in Keys, owner \in Owners : ReleaseDetached(key, owner)

Spec == Init /\ [][Next]_vars

TypeOK ==
    /\ DOMAIN tiles \subseteq Keys
    /\ activeRequests \subseteq RequestIds
    /\ pending \subseteq 1..MaxOps
    /\ opCount \in 0..MaxOps
    /\ reacquired \subseteq Keys \X Owners
    /\ gaveUp \subseteq Keys \X Owners
    /\ imageData = << >>
    /\ data = << >>


FairSpec ==
    /\ Spec
    /\ WF_vars(Update)
    /\ \A r \in RequestIds :
         /\ WF_vars(LoadReject(r) \/ \E status \in Statuses : LoadResponse(r, status))
         /\ WF_vars(ThenCallback(r))

\* ======================= decodeBitmap =======================
\* ---- bound of the bitmaps ----
MaxPixels == 2

\* Channel values of the pixels: the extremes, the pixel of -9000 m
\* (0, 39, 16), the pixels around 0 m (1, 134, 160..161) and pixels above
\* 2^20 m (161, 134, 162..163).
Reds == {0, 1, 161, 255}
Greens == {39, 134, 255}
Blues == {1, 16, 160, 161, 162, 163, 255}

Pixels == Reds \X Greens \X Blues

\* getImageData of a bitmap of 1..MaxPixels pixels (alpha is not read).
Bitmaps == UNION {[1..n -> Pixels] : n \in 1..MaxPixels}

\* r * 256 * 256 + g * 256 + b
Packed(r, g, b) == r * 256 * 256 + g * 256 + b

Abs(n) == IF n < 0 THEN -n ELSE n

\* A Float32Array element: 0, or sign * mant * 2^(exp - 23) with
\* 2^23 <= mant < 2^24.
Float32Zero == [sign |-> 0, mant |-> 0, exp |-> 0]

\* The binary exponent of a / 10 for an integer a > 0: 2^e <= a / 10 < 2^(e + 1).
Exponent(a) ==
    CHOOSE e \in -4..23 :
        IF e >= 0
        THEN 10 * (2 ^ e) <= a /\ a < 10 * (2 ^ (e + 1))
        ELSE a < 10 /\ 10 <= a * (2 ^ (-e)) /\ a * (2 ^ (-e)) < 20

\* The store into a Float32Array element of the number tenths / 10: the
\* nearest 32-bit float, ties to the even mantissa.  (The double that the
\* expression -10000 + p * 0.1 yields is within 2^-29 of tenths / 10 and
\* tenths / 10 is never within that distance of the midpoint of two 32-bit
\* floats, so rounding it gives the same float.)
Float32OfTenths(tenths) ==
    IF tenths = 0 THEN Float32Zero
    ELSE LET a == Abs(tenths)
             e == Exponent(a)
             num == a * (2 ^ (23 - e))
             q == num \div 10
             rem == num % 10
             mant == IF rem > 5 \/ (rem = 5 /\ q % 2 = 1) THEN q + 1 ELSE q
         IN  IF mant = 2 ^ 24
             THEN [sign |-> IF tenths < 0 THEN -1 ELSE 1, mant |-> 2 ^ 23, exp |-> e + 1]
             ELSE [sign |-> IF tenths < 0 THEN -1 ELSE 1, mant |-> mant, exp |-> e]

\* Faulty variant of the loop body: the channels are packed blue first.
decodeSample_BGR(r, g, b) == Float32OfTenths(Packed(b, g, r) - 100000)

\* data[i] = -10000 + (r * 256 * 256 + g * 256 + b) * 0.1
decodeSample(r, g, b) == Float32OfTenths(Packed(r, g, b) - 100000)

\* The loop of decodeBitmap over the pixels.
decodeBitmap(pixels) ==
    [i \in 1..Len(pixels) |-> decodeSample(pixels[i][1], pixels[i][2], pixels[i][3])]

\* A bitmap has been fetched and drawn; nothing is decoded yet.
DecodeInit ==
    /\ InitLoader
    /\ imageData \in Bitmaps
    /\ data = << >>

DecodeBitmap ==
    /\ imageData # << >>
    /\ data = << >>
    /\ data' = decodeBitmap(imageData)
    /\ UNCHANGED <<imageData, loaderVars>>

DecodeNext == DecodeBitmap

DecodeSpec == DecodeInit /\ [][DecodeNext]_vars

\* ======================= properties =======================
\* Requests of a sequence of identities that are for the coordinate `key`.
PositionsFor(s, key) == {i \in 1..Len(s) : getTileKey(heap[s[i]].x, heap[s[i]].y, heap[s[i]].zoom) = key}

RequestKey(r) == getTileKey(heap[r].x, heap[r].y, heap[r].zoom)

\* C1: for every coordinate, at most one Request exists across the waiting
\* FIFO and the in-progress list taken together.
C1_Coalescing ==
    \A key \in Keys :
        Cardinality(PositionsFor(queue, key)) + Cardinality(PositionsFor(queueInProgress, key)) <= 1

\* Two callers are coalesced on one Request that is already in flight.
C1_Witness ==
    \E i \in 1..Len(queueInProgress) : Len(heap[queueInProgress[i]].waitingList) >= 2

\* C2: the number of in-flight requests (members of activeRequests, and
\* load() pipelines launched and not settled) never exceeds the cap.
C2_ConcurrencyCap ==
    /\ Cardinality(activeRequests) <= maxConcurrentRequests
    /\ Cardinality({r \in DOMAIN loads : loads[r].promise = "pending"}) <= maxConcurrentRequests

\* The cap is reached while another Request waits.
C2_Witness ==
    /\ Cardinality({r \in DOMAIN loads : loads[r].promise = "pending"}) = maxConcurrentRequests
    /\ Len(queue) > 0


\* The step is the .then callback of load() for Request r.
IsThenCallback(r) == r \in ThenJobs /\ r \notin DOMAIN loads'

\* The waiting continuations of every live Request for the coordinate `key`.
WaitersFor(key) ==
    UNION {Range(heap[r].waitingList) : r \in {q \in DOMAIN heap : RequestKey(q) = key}}

\* C3: when the fetch for a coordinate succeeds, it is the only fetch launched
\* for that coordinate, and every caller suspended on that coordinate is
\* resolved in that step with the one Tile instance now cached there, and its
\* owner is in that tile's tracker.
C3_CoalescedCallersShareTile ==
    [][\A r \in RequestIds :
          (IsThenCallback(r) /\ loads[r].status = HttpOk) =>
              LET key == RequestKey(r)
                  tile == getTile(tiles', key[1], key[2], key[3])
              IN  /\ tile.id # 0
                  /\ {q \in DOMAIN loads : RequestKey(q) = key} = {r}
                  /\ PositionsFor(queue, key) = {}
                  /\ \A w \in WaitersFor(key) :
                        /\ [promise |-> w.promise, owner |-> w.owner, tile |-> tile.id] \in resumed'
                        /\ w.promise \notin pending'
                        /\ w.owner \in tile.users
                  /\ \A e \in resumed' : e.tile = tile.id
      ]_vars

\* Two callers with different owners were resolved together with the same
\* tile, and both owners are registered on it.
C3_Witness ==
    \E a \in resumed, b \in resumed :
        /\ a.promise # b.promise
        /\ a.owner # b.owner
        /\ a.tile = b.tile
        /\ \E key \in DOMAIN tiles :
              tiles[key].id = a.tile /\ {a.owner, b.owner} \subseteq tiles[key].users

\* C4: when the fetch of a Request returned a status other than 200, the
\* completion leaves the coordinate without a tile, resolves every waiting
\* continuation of the Request (with no tile) and throws nothing.
C4_Non200ResumesCallers ==
    [][\A r \in RequestIds :
          (IsThenCallback(r) /\ loads[r].status # HttpOk) =>
              LET key == RequestKey(r)
              IN  /\ getTile(tiles', key[1], key[2], key[3]).id = 0
                  /\ \A w \in Range(heap[r].waitingList) :
                        /\ w.promise \notin pending'
                        /\ [promise |-> w.promise, owner |-> w.owner, tile |-> 0] \in resumed'
                  /\ raised' = raised
      ]_vars

\* C5: at every point where no completion handler is due, a Request whose
\* pipeline has ended (non-200 status, network error) is in neither record of
\* in-flight work, and has left no tile.
C5_FailureFreesSlot ==
    Quiescent =>
        /\ \A r \in activeRequests \cup Range(queueInProgress) :
              r \in DOMAIN loads /\ loads[r].promise = "pending"
        /\ \A r \in DOMAIN loads :
              loads[r].promise = "rejected" =>
                  getTile(tiles, heap[r].x, heap[r].y, heap[r].zoom).id = 0


\* C6: with update() called again and again and every launched fetch
\* settling, every waiting Request is eventually admitted and every suspended
\* caller is eventually resumed.
C6_NoStall ==
    /\ \A r \in RequestIds : (r \in Range(queue)) ~> (r \in activeRequests)
    /\ \A p \in 1..MaxOps : (p \in pending) ~> (p \notin pending)

CachedKeys == DOMAIN tiles

\* C7: a tile leaves the cache (or is replaced by another instance) only in
\* an update() step and only if it has no owner at the call; and an update()
\* step leaves in the cache exactly the tiles that had an owner at the call.
C7_EvictionExact ==
    [][/\ \A key \in CachedKeys :
             (key \notin DOMAIN tiles' \/ tiles'[key].id # tiles[key].id) =>
                 (Update /\ tiles[key].users = {})
       /\ Update => DOMAIN tiles' = {key \in CachedKeys : tiles[key].users # {}}
      ]_vars

\* An update() evicted a tile while a tile with an owner stayed cached.
C7_Witness ==
    /\ evicted # {}
    /\ \E key \in DOMAIN tiles : tiles[key].users # {}

\* C8: a tile whose last owner has called release, with no owner registered
\* on it since, is absent from the cache after the next update() call.
C8_ReleasedTileEvicted ==
    [][Update => \A key \in orphaned : getTile(tiles', key[1], key[2], key[3]).id = 0]_vars

\* An update() evicted the only cached tile (a cached tile has no owner only
\* after its last owner released it).
C8_Witness ==
    /\ evicted # {}
    /\ \A key \in evicted : getTile(tiles, key[1], key[2], key[3]).id = 0
    /\ DOMAIN tiles = {}

\* C9: a getOrLoadTile call for a cached coordinate resolves the caller's
\* promise at once with the cached tile, adds the owner to that tile's tracker
\* and changes nothing else: not the queue, the in-flight records, the
\* Requests, the launched loads, or any other cache entry.
C9_CacheHitFrame ==
    [][\A x \in Xs, y \in Ys, zoom \in Zooms, owner \in Owners :
          (getTile(tiles, x, y, zoom).id # 0 /\ GetOrLoadTile(x, y, zoom, owner)) =>
              LET key == getTileKey(x, y, zoom)
              IN  /\ \E e \in resumed' : resumed' = {e} /\ e.owner = owner /\ e.tile = tiles[key].id
                  /\ pending' = pending
                  /\ DOMAIN tiles' = DOMAIN tiles
                  /\ tiles'[key] = [tiles[key] EXCEPT !.users = tiles[key].users \cup {owner}]
                  /\ \A other \in DOMAIN tiles \ {key} : tiles'[other] = tiles[other]
                  /\ queue' = queue
                  /\ queueInProgress' = queueInProgress
                  /\ activeRequests' = activeRequests
                  /\ heap' = heap
                  /\ loads' = loads
                  /\ launched' = << >>
      ]_vars

\* A caller was served from the cache: its promise is the only one resolved
\* by the step, on a tile that already had another owner.
C9_Witness ==
    \E e \in resumed :
        /\ resumed = {e}
        /\ \E key \in DOMAIN tiles :
              /\ tiles[key].id = e.tile
              /\ e.owner \in tiles[key].users
              /\ tiles[key].users # {e.owner}

\* C10: every step launches the fetches of a prefix of the waiting FIFO, in
\* FIFO order, and the FIFO changes only by losing that prefix and by gaining
\* a new Request at its tail; so a Request added earlier is launched no later.
C10_FifoAdmission ==
    [][\E n \in 0..Len(queue) :
          LET rest == SubSeq(queue, n + 1, Len(queue))
          IN  /\ launched' = [i \in 1..n |-> FetchEntry(heap, queue[i])]
              /\ queueInProgress' = queueInProgress \o SubSeq(queue, 1, n)
                   \/ (n = 0 /\ Len(queueInProgress') <= Len(queueInProgress))
              /\ \/ queue' = rest
                 \/ \E r \in RequestIds : r \notin Range(queue) /\ queue' = Append(rest, r)
      ]_vars

\* An update() launched two fetches in arrival order and a third Request waits.
C10_Witness ==
    /\ Len(launched) = maxConcurrentRequests
    /\ Len(queue) > 0


\* The Requests alive for the coordinate `key`.
RequestsFor(key) == {r \in DOMAIN heap : RequestKey(r) = key}

\* C11: every fetch launched is that of a Request taken from the waiting
\* FIFO (never a second fetch of a Request already launched), and a
\* getOrLoadTile call for an uncached coordinate whose fetch has failed
\* queues a new Request for it.
C11_NoRetryFreshRequest ==
    [][/\ \A i \in 1..Len(launched') :
             launched'[i][1] \in Range(queue) /\ launched'[i][1] \notin DOMAIN loads
       /\ \A x \in Xs, y \in Ys, zoom \in Zooms, owner \in Owners :
             LET key == getTileKey(x, y, zoom)
             IN  (/\ GetOrLoadTile(x, y, zoom, owner)
                  /\ getTile(tiles, x, y, zoom).id = 0
                  /\ \A r \in RequestsFor(key) :
                        r \in DOMAIN loads /\ loads[r].promise # "pending")
                 => /\ Len(queue') = Len(queue) + 1
                    /\ heap'[queue'[Len(queue')]].x = x
                    /\ heap'[queue'[Len(queue')]].y = y
                    /\ heap'[queue'[Len(queue')]].zoom = zoom
      ]_vars

\* C12: a getOrLoadTile call on a cache miss leaves the cache and the records
\* of in-flight work as they are and launches nothing; it either appends one
\* continuation to the live Request of the coordinate or puts one new Request
\* with one continuation at the tail of the FIFO.  Only update() launches a
\* fetch or moves a Request into flight.
C12_OnlyUpdateLaunches ==
    [][/\ \A x \in Xs, y \in Ys, zoom \in Zooms, owner \in Owners :
             (getTile(tiles, x, y, zoom).id = 0 /\ GetOrLoadTile(x, y, zoom, owner)) =>
                 LET key == getTileKey(x, y, zoom)
                 IN  /\ tiles' = tiles
                     /\ activeRequests' = activeRequests
                     /\ queueInProgress' = queueInProgress
                     /\ loads' = loads
                     /\ launched' = << >>
                     /\ \E p \in 1..MaxOps :
                          LET item == WaitingListItem(x, y, zoom, owner, p)
                          IN  /\ p \notin pending
                              /\ pending' = pending \cup {p}
                              /\ \/ \E r \in RequestsFor(key) :
                                      /\ queue' = queue
                                      /\ heap' = [heap EXCEPT ![r].waitingList = Append(@, item)]
                                 \/ \E id \in RequestIds :
                                      /\ RequestsFor(key) = {}
                                      /\ id \notin DOMAIN heap
                                      /\ queue' = Append(queue, id)
                                      /\ DOMAIN heap' = DOMAIN heap \cup {id}
                                      /\ \A r \in DOMAIN heap : heap'[r] = heap[r]
                                      /\ heap'[id] = [x |-> x, y |-> y, zoom |-> zoom,
                                                      waitingList |-> <<item>>]
       /\ (\/ launched' # << >>
           \/ ~(DOMAIN loads' \subseteq DOMAIN loads)
           \/ ~(Range(queueInProgress') \subseteq Range(queueInProgress))
           \/ ~(activeRequests' \subseteq activeRequests)) => Update
      ]_vars

\* Two Requests wait in arrival order, one of them with two continuations,
\* and no fetch has been launched.
C12_Witness ==
    /\ Len(queue) = 2
    /\ Len(heap[queue[1]].waitingList) + Len(heap[queue[2]].waitingList) = 3
    /\ DOMAIN loads = {}

\* C13: on the tracker of every cached tile and for every owner, use applied
\* twice gives what use applied once gives, release applied twice gives what
\* release applied once gives, and release of an owner that is not registered
\* gives the tracker back unchanged.
C13_TrackerIdempotent ==
    \A key \in DOMAIN tiles, owner \in Owners :
        LET users == tiles[key].users
        IN  /\ use(use(users, owner), owner) = use(users, owner)
            /\ owner \in use(users, owner)
            /\ release(release(users, owner), owner) = release(users, owner)
            /\ owner \notin release(users, owner)
            /\ owner \notin users => release(users, owner) = users

\* A tracker with one owner registered and another not: use of the first and
\* release of the second are both repetitions.
C13_Witness ==
    \E key \in DOMAIN tiles :
        /\ tiles[key].users # {}
        /\ tiles[key].users # Owners
        /\ Quiescent

\* ---- bound of the downscale argument ----
MaxDownscale == 2

\* The ancestor coordinate of step i of the downscale loop.
Ancestor(x, y, zoom, i) == getTileKey(x \div (2 ^ i), y \div (2 ^ i), zoom)

\* The levels load() stores at `key` when called with (x, y, zoom, d).
LevelsStoredAt(key, x, y, zoom, d) ==
    (IF key = getTileKey(x, y, zoom) THEN {0} ELSE {})
        \cup {i + 1 : i \in {j \in 0..(d - 1) : Ancestor(x, y, zoom, j) = key}}

\* The effect of a successful load(x, y, zoom, d) on the cache t.
LoadStoresPyramid(t, x, y, zoom, d) ==
    LET t2 == loadStore(t, x, y, zoom, d)
        targets == {getTileKey(x, y, zoom)} \cup {Ancestor(x, y, zoom, i) : i \in 0..(d - 1)}
    IN  /\ DOMAIN t2 = DOMAIN t \cup targets
        /\ \A key \in DOMAIN t :
              /\ t2[key].id = t[key].id
              /\ t2[key].users = t[key].users
              /\ t2[key].levels = t[key].levels \cup LevelsStoredAt(key, x, y, zoom, d)
        /\ \A key \in targets \ DOMAIN t :
              /\ t2[key].users = {}
              /\ t2[key].levels = LevelsStoredAt(key, x, y, zoom, d)
              /\ \A other \in DOMAIN t2 \ {key} : t2[other].id # t2[key].id

\* The step is the 200 answer to the fetch of Request r.
IsLoadStored(r) ==
    /\ r \in DOMAIN loads
    /\ loads[r].promise = "pending"
    /\ r \in DOMAIN loads'
    /\ loads'[r] = [promise |-> "fulfilled", status |-> HttpOk]

\* C15: where the fetch of a Request completes with status 200, load(x, y,
\* zoom, d) on the cache of that moment stores level 0 at (x, y, zoom) and
\* level i + 1 at (x div 2^i, y div 2^i, zoom) for every i < d, creating the
\* tiles that are absent and touching nothing else, whatever d is; and the
\* call made for an admitted Request (d = 1) creates or changes the entry at
\* the Request's coordinate only, which then holds levels 0 and 1.
C15_LoadStoresLevels ==
    [][\A r \in DOMAIN loads :
          IsLoadStored(r) =>
              LET key == RequestKey(r)
              IN  /\ \A d \in 0..MaxDownscale :
                        LoadStoresPyramid(tiles, key[1], key[2], key[3], d)
                  /\ DOMAIN tiles' = DOMAIN tiles \cup {key}
                  /\ \A other \in DOMAIN tiles \ {key} : tiles'[other] = tiles[other]
                  /\ tiles'[key].levels = getTile(tiles, key[1], key[2], key[3]).levels \cup {0, 1}
                  /\ {0, 1} \subseteq tiles'[key].levels
      ]_vars

\* A load has just stored a tile with levels 0 and 1 at the coordinate of its
\* Request, whose completion handler is still to run.
C15_Witness ==
    \E r \in ThenJobs :
        /\ loads[r].status = HttpOk
        /\ getTile(tiles, heap[r].x, heap[r].y, heap[r].zoom).levels = {0, 1}
        /\ heap[r].x > 0

\* C17: when an update() call returns, the waiting FIFO is empty or the
\* number of in-flight Requests equals the cap.
C17_WorkConserving ==
    [][Update => (QueueSize(queue') = 0 \/ Cardinality(activeRequests') = maxConcurrentRequests)]_vars

\* An update() filled the one free slot while the other was taken.
C17_Witness ==
    /\ Len(launched) = 1
    /\ Cardinality(activeRequests) = maxConcurrentRequests
    /\ QueueSize(queue) = 0

\* C18: activeRequests holds exactly the Requests of the in-progress list,
\* each once.
C18_InFlightRecordsAgree ==
    /\ activeRequests = Range(queueInProgress)
    /\ Len(queueInProgress) = Cardinality(activeRequests)

\* One Request has completed and left both records while another is still
\* in both.
C18_Witness ==
    /\ resumed # {}
    /\ Cardinality(activeRequests) = 1
    /\ Len(queueInProgress) = 1

\* C19: whenever getOrLoadTile or update() can be called (no completion
\* handler is due), no coordinate has both a cached tile and a Request.
C19_TileExcludesRequest ==
    Quiescent => \A key \in DOMAIN tiles : RequestsFor(key) = {}

\* A tile is cached while a Request for another coordinate is alive.
C19_Witness ==
    /\ Quiescent
    /\ DOMAIN tiles # {}
    /\ DOMAIN heap # {}


\* The whole waiting side of the Request r gave up before completion.
AllGaveUp(r) == \A owner \in WaitingOwners(RequestKey(r)) : <<RequestKey(r), owner>> \in gaveUp

\* C16 as stated: the fetch of a Request completes and stores the tile
\* although its owners released in the meantime, the completion leaves the
\* tile with no registered user when every interested owner released before
\* it, and the next eviction pass reclaims a tile whose only registered users
\* are owners that released before completion.
C16_ReleasedBeforeCompletionReclaimed ==
    [][/\ \A r \in RequestIds : IsLoadStored(r) => RequestKey(r) \in DOMAIN tiles'
       /\ \A r \in RequestIds :
             (IsThenCallback(r) /\ loads[r].status = HttpOk /\ AllGaveUp(r)) =>
                 /\ RequestKey(r) \in DOMAIN tiles'
                 /\ tiles'[RequestKey(r)].users = {}
       /\ Update => \A key \in DOMAIN tiles :
                        (\A owner \in tiles[key].users : <<key, owner>> \in gaveUp)
                            => key \notin DOMAIN tiles'
      ]_vars

\* C16 amended: a release by an owner whose request is unfinished reaches
\* nothing of the loader; the fetch completes and stores the tile all the
\* same; the completion registers every waiting owner on the tile, those
\* that released before it included; and an eviction pass reclaims exactly
\* the tiles with no registered user, so the tile stays until the owners
\* registered by the completion release it.
C16_NoCancellation ==
    [][/\ \A key \in Keys, owner \in Owners :
             ReleaseDetached(key, owner) =>
                 UNCHANGED <<tiles, heap, queue, queueInProgress, activeRequests, loads, pending>>
       /\ \A r \in RequestIds : IsLoadStored(r) => RequestKey(r) \in DOMAIN tiles'
       /\ \A r \in RequestIds :
             (IsThenCallback(r) /\ loads[r].status = HttpOk) =>
                 /\ RequestKey(r) \in DOMAIN tiles'
                 /\ tiles'[RequestKey(r)].users =
                        getTile(tiles, heap[r].x, heap[r].y, heap[r].zoom).users
                            \cup WaitingOwners(RequestKey(r))
       /\ Update => \A key \in DOMAIN tiles :
                        (key \in DOMAIN tiles') <=> (tiles[key].users # {})
      ]_vars

\* A completion has just registered, on the tile it delivered, owners that
\* had all released while the fetch was unfinished.
C16_Witness ==
    \E key \in DOMAIN tiles :
        /\ tiles[key].users # {}
        /\ \A owner \in tiles[key].users : <<key, owner>> \in gaveUp
        /\ \E e \in resumed : e.tile = tiles[key].id /\ <<key, e.owner>> \in gaveUp

\* C20: registration is membership in a set.  A release by an owner leaves
\* the tracker without that owner however often the owner obtained the tile;
\* obtaining a tile the owner is registered on, by getOrLoadTile or by use,
\* leaves every tracker as it is; and update() evicts every tile whose
\* tracker is empty.
C20_SetMembership ==
    [][/\ \A key \in Keys, owner \in Owners :
             Release(key, owner) => tiles'[key].users = tiles[key].users \ {owner}
       /\ \A x \in Xs, y \in Ys, zoom \in Zooms, owner \in Owners :
             LET key == getTileKey(x, y, zoom)
             IN  (/\ key \in DOMAIN tiles
                  /\ owner \in tiles[key].users
                  /\ GetOrLoadTile(x, y, zoom, owner) \/ Use(key, owner))
                 => tiles' = tiles /\ <<key, owner>> \in reacquired'
       /\ Update => \A key \in DOMAIN tiles :
                        tiles[key].users = {} => key \in evicted' /\ key \notin DOMAIN tiles'
      ]_vars

\* update() has just evicted a tile that an owner had obtained while already
\* registered on it.
C20_Witness ==
    \E p \in reacquired : p[1] \in evicted /\ p[1] \notin DOMAIN tiles


\* The sample is exactly tenths / 10.
IsExactly(sample, tenths) ==
    IF tenths = 0 THEN sample = Float32Zero
    ELSE /\ sample.sign = (IF tenths < 0 THEN -1 ELSE 1)
         /\ sample.exp \in -4..23
         /\ 10 * sample.mant = Abs(tenths) * (2 ^ (23 - sample.exp))

\* Ten times the distance of the sample from tenths / 10, in units of the
\* last place of the sample.
UlpError(sample, tenths) == Abs(10 * sample.mant - Abs(tenths) * (2 ^ (23 - sample.exp)))

\* The sample is the 32-bit float nearest to tenths / 10.
IsNearest(sample, tenths) ==
    IF tenths = 0 THEN sample = Float32Zero
    ELSE /\ sample.sign = (IF tenths < 0 THEN -1 ELSE 1)
         /\ sample.exp \in -4..23
         /\ sample.mant >= 2 ^ 23 /\ sample.mant < 2 ^ 24
         /\ UlpError(sample, tenths) <= 5

\* The sample rounded to the nearest tenth is tenths / 10.
RoundsToTenth(sample, tenths) ==
    IF tenths = 0 THEN sample = Float32Zero
    ELSE /\ sample.sign = (IF tenths < 0 THEN -1 ELSE 1)
         /\ 2 * UlpError(sample, tenths) < 2 ^ (23 - sample.exp)

\* The packing can be undone: distinct triples have distinct packed values.
Unpacks(r, g, b) ==
    LET p == Packed(r, g, b)
    IN  /\ p \div (256 * 256) = r
        /\ (p \div 256) % 256 = g
        /\ p % 256 = b

\* C14 as stated: every stored sample is, in tenths of a metre, the packed
\* value minus 100000; the pixel (0, 39, 16) is stored as -9000.0; distinct
\* triples have distinct packed values.
C14_SampleIsExact ==
    data # << >> =>
        \A i \in 1..Len(imageData) :
            LET r == imageData[i][1]
                g == imageData[i][2]
                b == imageData[i][3]
            IN  /\ IsExactly(data[i], Packed(r, g, b) - 100000)
                /\ (r = 0 /\ g = 39 /\ b = 16) => IsExactly(data[i], -90000)
                /\ Unpacks(r, g, b)

\* C14 amended: every stored sample is the 32-bit float nearest to
\* (packed - 100000) / 10, hence exactly that number where a 32-bit float
\* can hold it, as -9000.0 for the pixel (0, 39, 16); below 2^20 m it rounds
\* to that number at one decimal; the samples of one bitmap are in the order
\* of its pixels; distinct triples have distinct packed values.
C14_SampleIsNearestFloat32 ==
    data # << >> =>
        /\ Len(data) = Len(imageData)
        /\ \A i \in 1..Len(imageData) :
              LET r == imageData[i][1]
                  g == imageData[i][2]
                  b == imageData[i][3]
                  tenths == Packed(r, g, b) - 100000
              IN  /\ IsNearest(data[i], tenths)
                  /\ (Abs(tenths) * (2 ^ (23 - data[i].exp))) % 10 = 0
                        => IsExactly(data[i], tenths)
                  /\ (r = 0 /\ g = 39 /\ b = 16) => IsExactly(data[i], -90000)
                  /\ Abs(tenths) < 10 * (2 ^ 20) => RoundsToTenth(data[i], tenths)
                  /\ Unpacks(r, g, b)
        /\ \A i, j \in 1..Len(imageData) :
              imageData[i] # imageData[j] =>
                  Packed(imageData[i][1], imageData[i][2], imageData[i][3])
                      # Packed(imageData[j][1], imageData[j][2], imageData[j][3])

\* A decoded bitmap with the pixel of -9000.0 next to a pixel whose sample
\* is not the exact number.
C14_Witness ==
    /\ Len(data) = 2
    /\ imageData[1] = <<0, 39, 16>>
    /\ IsExactly(data[1], -90000)
    /\ ~IsExactly(data[2], Packed(imageData[2][1], imageData[2][2], imageData[2][3]) - 100000)

====
